---- MODULE Spec2Model ----
(***************************************************************************)
(* DSXpert: a model of the review page's line diff and rendering           *)
(* (media/script.js, media/diff.js) and of the optimize command's review   *)
(* cycle (the variants of extension.ts).                                   *)
(*                                                                         *)
(* A text is a sequence of one-character strings.  The line diff is the    *)
(* diffLines of the package "diff" (version ^7.0.0 in package.json), which *)
(* media/diff.js exposes as window.Diff.diffLines: line tokens, then the   *)
(* greedy edit-graph search of that package, then its component values.    *)
(***************************************************************************)
EXTENDS Integers, Sequences, FiniteSets, TLC

\* ---------------------------------------------------------------- bounds
\* longest text, in characters, given to the line diff
MaxLen == 6
\* longest document, in characters, the optimize command is run on
MaxDocLen == 2
\* longest answer, in characters, of the language service to a code request
MaxCodeLen == 2
\* most clicks on the review page's buttons in one review cycle
MaxClicks == 2

\* ---------------------------------------------------------------- texts
NL == "\n"
Chars == {"a", NL}
\* "E" stands for the word "Error" in a text
ERR == "E"
CodeChars == {"a", NL, ERR}

TextsOver(cs, n) == UNION {[1..k -> cs] : k \in 0..n}
TextsUpTo(n) == TextsOver(Chars, n)

Min(x, y) == IF x <= y THEN x ELSE y
Max(x, y) == IF x >= y THEN x ELSE y

RECURSIVE Concat(_)
\* Array.prototype.join(''): the values of a sequence of texts, in order
Concat(ts) == IF ts = <<>> THEN <<>> ELSE Head(ts) \o Concat(Tail(ts))

\* ------------------------------------------------- diffLines: the tokens
RECURSIVE SplitLines(_, _, _, _)
\* value.split(/(\n|\r\n)/): contents and separators, alternating
SplitLines(value, i, cur, acc) ==
    IF i > Len(value) THEN Append(acc, cur)
    ELSE IF value[i] = NL
         THEN SplitLines(value, i + 1, <<>>, acc \o <<cur, <<NL>>>>)
         ELSE SplitLines(value, i + 1, Append(cur, value[i]), acc)

RECURSIVE MergeLines(_, _, _)
\* the loop that appends each separator (odd index) to the line before it
MergeLines(linesAndNewlines, i, retLines) ==
    IF i >= Len(linesAndNewlines) THEN retLines
    ELSE IF i % 2 = 1
         THEN MergeLines(linesAndNewlines, i + 1,
                  [retLines EXCEPT ![Len(retLines)] = @ \o linesAndNewlines[i + 1]])
         ELSE MergeLines(linesAndNewlines, i + 1,
                  Append(retLines, linesAndNewlines[i + 1]))

tokenize(value) ==
    LET parts == SplitLines(value, 1, <<>>, <<>>)
        \* the final empty token of a text that ends with a new line is dropped
        linesAndNewlines == IF parts[Len(parts)] = <<>>
                            THEN SubSeq(parts, 1, Len(parts) - 1)
                            ELSE parts
    IN  MergeLines(linesAndNewlines, 0, <<>>)

NonEmptyToken(t) == t # <<>>
removeEmpty(array) == SelectSeq(array, NonEmptyToken)

\* ------------------------------------------- diffLines: the edit search
\* a path of the search: the old position reached and the components so far
\* (the linked list lastComponent/previousComponent, oldest first)
NoPath == [def |-> FALSE, oldPos |-> -1, comps |-> <<>>]

Component(count, added, removed) ==
    [count |-> count, added |-> added, removed |-> removed]

addToPath(path, added, removed, oldPosInc) ==
    LET n == Len(path.comps) IN
    IF n > 0 /\ path.comps[n].added = added /\ path.comps[n].removed = removed
    THEN [def |-> TRUE, oldPos |-> path.oldPos + oldPosInc,
          comps |-> [path.comps EXCEPT ![n].count = @ + 1]]
    ELSE [def |-> TRUE, oldPos |-> path.oldPos + oldPosInc,
          comps |-> Append(path.comps, Component(1, added, removed))]

RECURSIVE CommonRun(_, _, _, _)
\* the while loop of extractCommon: how far both texts agree from here
CommonRun(newString, oldString, oldPos, newPos) ==
    IF /\ newPos + 1 < Len(newString)
       /\ oldPos + 1 < Len(oldString)
       /\ oldString[oldPos + 2] = newString[newPos + 2]
    THEN 1 + CommonRun(newString, oldString, oldPos + 1, newPos + 1)
    ELSE 0

\* extractCommon as it would be with a component for each common token
\* (the package's oneChangePerToken behaviour), to test the properties with
extractCommonPerToken(basePath, newString, oldString, diagonalPath) ==
    LET commonCount == CommonRun(newString, oldString, basePath.oldPos,
                                 basePath.oldPos - diagonalPath)
    IN  [def |-> TRUE, oldPos |-> basePath.oldPos + commonCount,
         comps |-> basePath.comps
                     \o [i \in 1..commonCount |-> Component(1, FALSE, FALSE)]]

extractCommon(basePath, newString, oldString, diagonalPath) ==
    LET commonCount == CommonRun(newString, oldString, basePath.oldPos,
                                 basePath.oldPos - diagonalPath)
    IN  [def |-> TRUE, oldPos |-> basePath.oldPos + commonCount,
         comps |-> IF commonCount > 0
                   THEN Append(basePath.comps, Component(commonCount, FALSE, FALSE))
                   ELSE basePath.comps]

RECURSIVE execEditLength(_, _, _, _, _, _, _)
\* one pass of the for loop over the diagonals of one edit length, from
\* diagonalPath on; done with the components when both ends are reached
execEditLength(diagonalPath, editLength, bestPath, minD, maxD, newString, oldString) ==
    IF diagonalPath > Min(maxD, editLength)
    THEN [done |-> FALSE, comps |-> <<>>, bestPath |-> bestPath,
          minD |-> minD, maxD |-> maxD]
    ELSE
      LET newLen == Len(newString)
          oldLen == Len(oldString)
          removePath == bestPath[diagonalPath - 1]
          addPath == bestPath[diagonalPath + 1]
          cleared == IF removePath.def
                     THEN [bestPath EXCEPT ![diagonalPath - 1] = NoPath]
                     ELSE bestPath
          addPathNewPos == addPath.oldPos - diagonalPath
          canAdd == addPath.def /\ 0 <= addPathNewPos /\ addPathNewPos < newLen
          canRemove == removePath.def /\ removePath.oldPos + 1 < oldLen
      IN
      IF ~canAdd /\ ~canRemove
      THEN execEditLength(diagonalPath + 2, editLength,
               [cleared EXCEPT ![diagonalPath] = NoPath], minD, maxD,
               newString, oldString)
      ELSE
        LET branched == IF ~canRemove \/ (canAdd /\ removePath.oldPos < addPath.oldPos)
                        THEN addToPath(addPath, TRUE, FALSE, 0)
                        ELSE addToPath(removePath, FALSE, TRUE, 1)
            basePath == extractCommon(branched, newString, oldString, diagonalPath)
            newPos == basePath.oldPos - diagonalPath
        IN
        IF basePath.oldPos + 1 >= oldLen /\ newPos + 1 >= newLen
        THEN [done |-> TRUE, comps |-> basePath.comps, bestPath |-> cleared,
              minD |-> minD, maxD |-> maxD]
        ELSE execEditLength(diagonalPath + 2, editLength,
                 [cleared EXCEPT ![diagonalPath] = basePath],
                 IF newPos + 1 >= newLen THEN Max(minD, diagonalPath + 1) ELSE minD,
                 IF basePath.oldPos + 1 >= oldLen THEN Min(maxD, diagonalPath - 1) ELSE maxD,
                 newString, oldString)

RECURSIVE editLoop(_, _, _, _, _, _)
\* while (editLength <= maxEditLength) { ret = execEditLength(); ... }
editLoop(editLength, bestPath, minD, maxD, newString, oldString) ==
    IF editLength > Len(newString) + Len(oldString) THEN <<>>
    ELSE LET r == execEditLength(Max(minD, -editLength), editLength, bestPath,
                                 minD, maxD, newString, oldString)
         IN  IF r.done THEN r.comps
             ELSE editLoop(editLength + 1, r.bestPath, r.minD, r.maxD,
                           newString, oldString)

RECURSIVE buildValues(_, _, _, _, _)
\* gives each component its text: added and common ones from the new
\* tokens, removed ones from the old tokens
buildValues(components, newString, oldString, newPos, oldPos) ==
    IF components = <<>> THEN <<>>
    ELSE LET component == Head(components) IN
         IF ~component.removed
         THEN <<[value |-> Concat(SubSeq(newString, newPos + 1, newPos + component.count)),
                 count |-> component.count,
                 added |-> component.added, removed |-> FALSE]>>
              \o buildValues(Tail(components), newString, oldString,
                             newPos + component.count,
                             IF component.added THEN oldPos ELSE oldPos + component.count)
         ELSE <<[value |-> Concat(SubSeq(oldString, oldPos + 1, oldPos + component.count)),
                 count |-> component.count,
                 added |-> FALSE, removed |-> TRUE]>>
              \o buildValues(Tail(components), newString, oldString,
                             newPos, oldPos + component.count)

\* Diff.prototype.diff of the package, on the tokens of both texts
diffTokens(oldString, newString) ==
    LET newLen == Len(newString)
        oldLen == Len(oldString)
        far == newLen + oldLen + 2
        \* bestPath = [{ oldPos: -1, lastComponent: undefined }], then the
        \* common start of both texts
        seed == extractCommon([def |-> TRUE, oldPos |-> -1, comps |-> <<>>],
                              newString, oldString, 0)
        bestPath == [d \in (0 - far)..far |-> IF d = 0 THEN seed ELSE NoPath]
    IN  IF seed.oldPos + 1 >= oldLen /\ seed.oldPos + 1 >= newLen
        THEN buildValues(seed.comps, newString, oldString, 0, 0)
        ELSE buildValues(editLoop(1, bestPath, 0 - far, far, newString, oldString),
                         newString, oldString, 0, 0)

\* the package's diffLines: lineDiff.diff(oldStr, newStr)
lineDiff(oldStr, newStr) ==
    diffTokens(removeEmpty(tokenize(oldStr)), removeEmpty(tokenize(newStr)))

\* the wrapper with its two arguments passed on in the other order
diffLinesSwapped(oldStr, newStr) == lineDiff(newStr, oldStr)

\* the wrapper passing no original text on
diffLinesOfNew(oldStr, newStr) == lineDiff(<<>>, newStr)

\* the wrapper delegating to the package's diffChars: one token a character
diffChars(oldStr, newStr) ==
    diffTokens([i \in 1..Len(oldStr) |-> <<oldStr[i]>>],
               [i \in 1..Len(newStr) |-> <<newStr[i]>>])

\* window.Diff.diffLines of media/diff.js
diffLines(oldStr, newStr) == lineDiff(oldStr, newStr)

\* ------------------------------------------------------- string helpers
\* String.prototype.includes, for a one-character needle
includes(text, ch) == \E i \in 1..Len(text) : text[i] = ch

RECURSIVE trimStart(_)
trimStart(text) ==
    IF text # <<>> /\ Head(text) = NL THEN trimStart(Tail(text)) ELSE text

RECURSIVE trimEnd(_)
trimEnd(text) ==
    IF text # <<>> /\ text[Len(text)] = NL
    THEN trimEnd(SubSeq(text, 1, Len(text) - 1))
    ELSE text

\* String.prototype.trim: the new line is the only white space of CodeChars
trim(text) == trimEnd(trimStart(text))

\* ------------------------------------------- the editor's text document
\* TextDocument.positionAt: the offset, clamped to the text, as line and
\* character
positionAt(text, offset) ==
    LET off == Min(Max(offset, 0), Len(text))
        before == {i \in 1..off : text[i] = NL}
        lineStart == IF before = {} THEN 0
                     ELSE CHOOSE i \in before : \A j \in before : j <= i
    IN  [line |-> Cardinality(before), character |-> off - lineStart]

\* TextDocument.offsetAt of a validated position: a line past the end is the
\* end of the text, a character past the end of its line is the line's end
offsetAt(text, position) ==
    LET breaks == {i \in 1..Len(text) : text[i] = NL}
        lineCount == Cardinality(breaks) + 1
        \* the offset at which line n (from 0) starts
        startOf(n) == IF n = 0 THEN 0
                      ELSE CHOOSE i \in breaks :
                               Cardinality({j \in breaks : j <= i}) = n
        endOf(n) == IF n + 1 >= lineCount THEN Len(text)
                    ELSE startOf(n + 1) - 1
    IN  IF position.line >= lineCount THEN Len(text)
        ELSE Min(startOf(position.line) + position.character, endOf(position.line))

\* the text with the characters from offset `from` up to offset `to` replaced
replaceRange(text, from, to, newText) ==
    SubSeq(text, 1, from) \o newText \o SubSeq(text, to + 1, Len(text))

\* ------------------------------------------------------------- variants
\* the variants of the extension in the repository:
\*   "js" src/src/extension.js       "qp" part_004 (quick pick)
\*   "p2" part_002                   "v1" part_003, lines 1-444
\*   "v2" part_003, lines 445-1105   "v3" part_003, lines 1106-1620
Variants == {"js", "qp", "p2", "v1", "v2", "v3"}
\* the command works on the selection and replaces the selection
SelectionVariants == {"js", "qp"}
\* the command opens a review panel
PanelVariants == {"p2", "v1", "v2", "v3"}
\* the panel's page is webview.ts with media/script.js
ScriptPageVariants == {"v1", "v2"}
\* withProgress is awaited inside the try block
AwaitedVariants == {"v1", "v2"}
\* getOptimizedCode(userCode, retries = 3)
RetryVariants == {"p2", "v3"}

DocTexts == TextsUpTo(MaxDocLen)
ServiceTexts == TextsOver(CodeChars, MaxCodeLen)

\* the error results of getOptimizedCode that are returned, not thrown
ErrorGenerating == <<ERR>>
ErrorSyntaxIssues == <<ERR, "a">>

\* ------------------------------------------ the external collaborators
\* What a collaborator answers is an input of the model.  A call of the
\* language service throws ("throws"), answers without a response text
\* ("noresp"), or answers a text.
Languages == {"javascript", "python", "unknown"}
\* the service's answer to the language question: a failed call, the name
\* of a supported language, or any other text
DetectAnswers == {"throws", "javascript", "python", "other"}
\* the service's answer to the syntax question: a failed call, an answer
\* that is no JSON, JSON with no issues, with warnings only, with an error
SyntaxAnswers == {"throws", "badjson", "noissues", "warnings", "errors"}
\* the service's answer to "can it be optimized?"
CheckAnswers == {"throws", "yes", "no"}
Answer(kind, text) == [kind |-> kind, text |-> text]
\* the service's answer to the code request
GenAnswers ==
    {Answer(k, <<>>) : k \in {"throws", "noresp"}}
        \cup {Answer("text", t) : t \in ServiceTexts}
\* the formatter: it fails, or prints a text
FormatAnswers == {Answer("throws", <<>>)} \cup {Answer("text", t) : t \in DocTexts}
ExplainAnswers == {"throws", "ok"}

\* the service-based detectLanguage: 'unknown' for a failed call and for an
\* answer that is no supported language
detectedLanguage(answer) ==
    IF answer \in {"javascript", "python"} THEN answer ELSE "unknown"

\* ------------------------------- the service-based detectLanguage, in full
\* the longest text, over AnswerChars, the service answers
MaxAnswerLen == 3

\* the names of the languages, as texts
L_python == <<"p", "y", "t", "h", "o", "n">>
L_java == <<"j", "a", "v", "a">>
L_cpp == <<"c", "p", "p">>
L_javascript == <<"j", "a", "v", "a", "s", "c", "r", "i", "p", "t">>
L_typescript == <<"t", "y", "p", "e", "s", "c", "r", "i", "p", "t">>
L_csharp == <<"c", "s", "h", "a", "r", "p">>
L_ruby == <<"r", "u", "b", "y">>
L_php == <<"p", "h", "p">>
L_swift == <<"s", "w", "i", "f", "t">>
L_go == <<"g", "o">>
L_rust == <<"r", "u", "s", "t">>
L_c == <<"c">>
L_cplusplus == <<"c", "+", "+">>
L_unknown == <<"u", "n", "k", "n", "o", "w", "n">>
L_sharp == <<"s", "h", "a", "r", "p">>
L_js == <<"j", "s">>

\* SUPPORTED_LANGUAGES of part_002 and of part_003 (third variant)
SUPPORTED_LANGUAGES_11 ==
    {L_python, L_java, L_cpp, L_javascript, L_typescript, L_csharp, L_ruby,
     L_php, L_swift, L_go, L_rust}

\* SUPPORTED_LANGUAGES of part_003 (first and second variant)
SUPPORTED_LANGUAGES_13 == SUPPORTED_LANGUAGES_11 \cup {L_c, L_cplusplus}

SUPPORTED_LANGUAGES(v) ==
    IF v \in {"v1", "v2"} THEN SUPPORTED_LANGUAGES_13 ELSE SUPPORTED_LANGUAGES_11

LowerLetters ==
    {"a", "b", "c", "d", "e", "f", "g", "h", "i", "j", "k", "l", "m", "n", "o",
     "p", "q", "r", "s", "t", "u", "v", "w", "x", "y", "z"}

\* String.prototype.toLowerCase, on the capitals that occur in an answer
lowerChar(ch) ==
    CASE ch = "C" -> "c"
      [] ch = "J" -> "j"
      [] ch = "S" -> "s"
      [] ch = "P" -> "p"
      [] ch = "Y" -> "y"
      [] ch = "E" -> "e"
      [] OTHER -> ch
toLowerCase(text) == [i \in 1..Len(text) |-> lowerChar(text[i])]

WhiteSpace == {NL, " "}
RECURSIVE trimWhiteStart(_)
trimWhiteStart(text) ==
    IF text # <<>> /\ Head(text) \in WhiteSpace THEN trimWhiteStart(Tail(text))
    ELSE text
RECURSIVE trimWhiteEnd(_)
trimWhiteEnd(text) ==
    IF text # <<>> /\ text[Len(text)] \in WhiteSpace
    THEN trimWhiteEnd(SubSeq(text, 1, Len(text) - 1))
    ELSE text
\* String.prototype.trim of an answer: blanks and line breaks
trimWhite(text) == trimWhiteEnd(trimWhiteStart(text))

\* text.replace(/[^a-z#+]/g, '')
IsLangChar(ch) == ch \in LowerLetters \cup {"#", "+"}
removeSpecial(text) == SelectSeq(text, IsLangChar)

startsWith(text, pat) ==
    Len(text) >= Len(pat) /\ SubSeq(text, 1, Len(pat)) = pat

RECURSIVE replaceAll(_, _, _)
\* text.replace(/(pat)/g, by): every occurrence, from the left, the search
\* going on after the text put in
replaceAll(text, pat, by) ==
    IF text = <<>> THEN <<>>
    ELSE IF startsWith(text, pat)
    THEN by \o replaceAll(SubSeq(text, Len(pat) + 1, Len(text)), pat, by)
    ELSE <<Head(text)>> \o replaceAll(Tail(text), pat, by)

\* .replace(/(sharp)/g, 'csharp')
fixSharp(text) == replaceAll(text, L_sharp, L_csharp)

\* .replace(/(cpp|c\+\+)/g, 'cpp'), in part_003 (first and second variant)
fixCpp(v, text) ==
    IF v \in {"v1", "v2"}
    THEN replaceAll(replaceAll(text, L_cplusplus, L_cpp), L_cpp, L_cpp)
    ELSE text

\* .replace(/(js|typescript)/g, m => m === 'js' ? 'javascript' : 'typescript')
fixJs(text) == replaceAll(text, L_js, L_javascript)

\* detectedLang: the answer trimmed, in lower case, through the chain
sanitize(v, text) ==
    fixJs(fixCpp(v, fixSharp(removeSpecial(toLowerCase(trimWhite(text))))))

\* detectLanguage as it would be if it returned detectedLang untested
detectLanguageUntested(v, answer) ==
    IF answer.kind # "text" THEN L_unknown ELSE sanitize(v, answer.text)

\* detectLanguage(code) of the service-based variants: 'unknown' when the
\* call fails and when detectedLang is not in SUPPORTED_LANGUAGES
detectLanguage(v, answer) ==
    IF answer.kind # "text" THEN L_unknown
    ELSE IF sanitize(v, answer.text) \in SUPPORTED_LANGUAGES(v)
    THEN sanitize(v, answer.text)
    ELSE L_unknown

\* what the service answers to the language question: a failed call, no
\* response, the names and their variations, and every short text
AnswerChars == {"c", "p", "#", "+", "s", "j", " ", "C"}
LanguageTexts ==
    SUPPORTED_LANGUAGES_13
        \cup {L_sharp, <<"c", " ", "s", "h", "a", "r", "p">>, <<"C", "#">>, <<"P", "y", "t", "h", "o", "n">>, <<" ", "j", "a", "v", "a", NL>>}
        \cup TextsOver(AnswerChars, MaxAnswerLen)
LanguageAnswers ==
    {Answer(k, <<>>) : k \in {"throws", "noresp"}}
        \cup {Answer("text", t) : t \in LanguageTexts}

\* ------------------------------------------ the pattern-based detectLanguage
\* languagePatterns: its keys, in the order Object.entries gives them
languagePatterns ==
    <<L_python, L_java, L_cpp, L_javascript, L_csharp, L_ruby, L_php, L_swift,
      L_go, L_rust>>

PatternLanguages == {languagePatterns[i] : i \in 1..Len(languagePatterns)}

\* the sets of languages whose pattern can match one code: a code that
\* matches python's /def\s+\w+\s*\(/ matches ruby's /def\s+\w+|.../
PatternMatches ==
    {m \in SUBSET PatternLanguages : L_python \in m => L_ruby \in m}

RECURSIVE lastMatch(_, _)
\* the loop as it would be if it went through the entries from the last
lastMatch(entries, matches) ==
    IF entries = <<>> THEN L_unknown
    ELSE IF entries[Len(entries)] \in matches THEN entries[Len(entries)]
    ELSE lastMatch(SubSeq(entries, 1, Len(entries) - 1), matches)

RECURSIVE firstMatch(_, _)
\* for (const [lang, pattern] of entries) if (pattern.test(code)) return lang;
\* return 'unknown'
firstMatch(entries, matches) ==
    IF entries = <<>> THEN L_unknown
    ELSE IF Head(entries) \in matches THEN Head(entries)
    ELSE firstMatch(Tail(entries), matches)

\* detectLanguage(code) of extension.js, part_001 and part_004; matches is
\* the set of the languages whose pattern tests true on the code
detectLanguagePattern(matches) == firstMatch(languagePatterns, matches)

\* traditionalSyntaxCheck: localOk is what the local check finds in the code
\* (new Function(code) not throwing, the language's keywords present)
traditionalSyntaxCheck(v, language, localOk) ==
    IF v = "v2"
    THEN IF language = "unknown" THEN FALSE ELSE localOk
    ELSE IF language = "javascript" THEN localOk ELSE TRUE

\* validateSyntax as it would be if an answer with no issues were a pass
validateSyntaxNoFallback(v, answer, language, localOk) ==
    IF answer \in {"throws", "badjson"}
    THEN traditionalSyntaxCheck(v, language, localOk)
    ELSE answer \in {"noissues", "warnings"}

\* validateSyntax(code, language).isValid of the service-based variants
validateSyntax(v, answer, language, localOk) ==
    IF answer \in {"throws", "badjson", "noissues"}
    THEN traditionalSyntaxCheck(v, language, localOk)
    ELSE answer = "warnings"

\* ---------------------------------------- validateSyntax: the issue list
\* the longest issue list the service answers
MaxIssues == 2

\* an issue: line, column and message stand together as `line`
Issue(line, severity) == [line |-> line, severity |-> severity]
Issues == {Issue(l, sev) : l \in 1..2, sev \in {"error", "warning"}}
IssueLists == UNION {[1..k -> Issues] : k \in 0..MaxIssues}

\* the service's answer to the syntax question, in full: a failed call, a
\* text that is no JSON, or JSON with a list of issues
SyntaxReplies ==
    {[kind |-> k, issues |-> <<>>] : k \in {"throws", "badjson"}}
        \cup {[kind |-> "json", issues |-> l] : l \in IssueLists}

\* the test as it would be with Array.prototype.some
someNotError(issues) ==
    \E i \in 1..Len(issues) : issues[i].severity # "error"

\* validation.issues.every(i => i.severity !== 'error')
everyNotError(issues) ==
    \A i \in 1..Len(issues) : issues[i].severity # "error"

\* the reply as one of SyntaxAnswers
syntaxAnswer(reply) ==
    IF reply.kind # "json" THEN reply.kind
    ELSE IF reply.issues = <<>> THEN "noissues"
    ELSE IF everyNotError(reply.issues) THEN "warnings"
    ELSE "errors"

\* traditionalSyntaxCheck(code, language).issues: none when valid, else the
\* one issue of formatError / formatSyntaxError
traditionalIssues(v, language, localOk) ==
    IF traditionalSyntaxCheck(v, language, localOk) THEN <<>>
    ELSE <<Issue(1, "error")>>

\* validateSyntax(code, language).issues
validateSyntaxIssues(v, reply, language, localOk) ==
    IF syntaxAnswer(reply) \in {"throws", "badjson", "noissues"}
    THEN traditionalIssues(v, language, localOk)
    ELSE reply.issues

\* formatCode as it would be without its test of the language
formatCodeAnyLanguage(code, language, fmt) ==
    IF fmt.kind = "throws" THEN code ELSE fmt.text

\* formatCode of part_004, part_002 and part_003 (first and third variant):
\* prettier for javascript, the code itself otherwise and when prettier fails
formatCode(code, language, fmt) ==
    IF language = "javascript"
    THEN IF fmt.kind = "throws" THEN code ELSE fmt.text
    ELSE code

\* formatCode of part_003 (second variant): the formatter's command run by
\* exec; the code when the language has no command or the command fails,
\* else stdout.trim()
formatCodeExec(code, language, fmt) ==
    IF language \notin {"javascript", "python"} THEN code
    ELSE IF fmt.kind = "throws" THEN code
    ELSE trim(fmt.text)

\* the variants that have a formatCode, and the one each has
FormatVariants == {"qp", "p2", "v1", "v2", "v3"}
formatCodeOf(v, code, language, fmt) ==
    IF v = "v2" THEN formatCodeExec(code, language, fmt)
    ELSE formatCode(code, language, fmt)

\* the markdown fences and the words refineOptimizedCode rewrites do not
\* occur in a text over CodeChars: both leave such a text as it is
refineOptimizedCode(code, language) == code

\* refineOptimizedCode as it is in the other variants: it throws for no language
refineNeverThrows(v, language) == FALSE

\* refineOptimizedCode of part_003 (second variant) is a switch whose default
\* throws 'Language not supported'
refineThrows(v, language) == v = "v2" /\ language = "unknown"

\* the word the optimization check looks for
L_yes == <<"y", "e", "s">>

\* the check as it would be if every answer but 'no' went on
canOptimizeUnlessNo(text) == toLowerCase(trimWhite(text)) # <<"n", "o">>

\* canOptimize = response.text().trim().toLowerCase() === "yes"
canOptimize(text) == toLowerCase(trimWhite(text)) = L_yes

\* what the service answers to the check, in full
CheckTexts ==
    {L_yes, <<"Y", "e", "s">>, <<"Y", "E", "S">>, <<" ", "y", "e", "s", NL>>,
     <<"y", "e", "s", ".">>, <<"n", "o">>, <<"N", "o">>, <<>>, <<"y">>}
CheckReplies ==
    {Answer(k, <<>>) : k \in {"throws", "noresp"}}
        \cup {Answer("text", t) : t \in CheckTexts}

\* the reply as one of CheckAnswers
checkAnswer(reply) ==
    IF reply.kind # "text" THEN "throws"
    ELSE IF canOptimize(reply.text) THEN "yes"
    ELSE "no"

Result(failed, code, collab) ==
    [failed |-> failed, code |-> code, collab |-> collab]

\* src/src/extension.js: the service's text, or the error text
getOptimizedCodeJs(gen) ==
    IF gen.kind \in {"throws", "noresp"}
    THEN Result(TRUE, ErrorGenerating, TRUE)
    ELSE Result(FALSE, gen.text, FALSE)

\* part_004: language is the language whose pattern the code matches first,
\* synOk what the local compiler says of the optimized code
getOptimizedCodeQp(language, gen, synOk, fmt) ==
    IF gen.kind \in {"throws", "noresp"}
    THEN Result(TRUE, ErrorGenerating, TRUE)
    ELSE LET optimizedCode == refineOptimizedCode(trim(trim(gen.text)), language) IN
         IF language \in {"javascript", "python"} /\ ~synOk
         THEN Result(TRUE, ErrorSyntaxIssues, TRUE)
         ELSE Result(FALSE, trim(formatCode(optimizedCode, language, fmt)),
                     language = "javascript" /\ fmt.kind = "throws")

\* one attempt of the retrying getOptimizedCode of part_002 and part_003
\* (third variant): the optimized code is the user's code, refined, formatted
optimizeAttempt(v, userCode, det, syn1, syn2, localOk, fmt, expl) ==
    LET language == detectedLanguage(det)
        valid1 == validateSyntax(v, syn1, language, localOk)
        optimizedCode == refineOptimizedCode(userCode, language)
        valid2 == validateSyntax(v, syn2, language, localOk)
        failed1 == det = "throws" \/ syn1 \in {"throws", "badjson"}
        failed2 == syn2 \in {"throws", "badjson"}
        failed3 == (language = "javascript" /\ fmt.kind = "throws") \/ expl = "throws"
    IN  IF ~valid1 THEN Result(TRUE, <<>>, failed1)
        ELSE IF ~valid2 THEN Result(TRUE, <<>>, failed1 \/ failed2)
        ELSE Result(FALSE, formatCode(optimizedCode, language, fmt),
                    failed1 \/ failed2 \/ failed3)

AttemptResults(v, userCode) ==
    {optimizeAttempt(v, userCode, det, syn1, syn2, localOk, fmt, expl) :
        det \in DetectAnswers, syn1 \in SyntaxAnswers, syn2 \in SyntaxAnswers,
        localOk \in BOOLEAN, fmt \in FormatAnswers, expl \in ExplainAnswers}

\* getOptimizedCode(userCode, retries): the first attempt that succeeds,
\* after attempts that failed, or the error thrown when every attempt failed
getOptimizedCodeRetry(v, userCode) ==
    LET all == AttemptResults(v, userCode)
        good == {r \in all : ~r.failed}
        bad == {r \in all : r.failed}
    IN  good
        \cup {Result(FALSE, r.code, r.collab \/ f.collab) : r \in good, f \in bad}
        \cup {Result(TRUE, <<>>, f.collab) : f \in bad}

\* ------------------------------- the loop of the retrying getOptimizedCode
\* the most attempts asked for
MaxRetries == 3

\* how an attempt ends: it returns, or it throws one of two errors
AttemptOutcomes == {"ok", "syntax issues", "syntax errors"}

Returned(made) == [kind |-> "returned", attempts |-> made, error |-> "none"]
FailedAfter(made, lastError) ==
    [kind |-> "Failed after", attempts |-> made, error |-> lastError]
Unexpected(made, lastError) ==
    [kind |-> "Unexpected error", attempts |-> made, error |-> lastError]

RECURSIVE retryLoopNoThrow(_, _, _, _)
\* the loop as it would be with `if (attempts > retries)` in its catch
retryLoopNoThrow(attempts, retries, lastError, outcomes) ==
    IF attempts < retries
    THEN IF outcomes[attempts + 1] = "ok" THEN Returned(attempts + 1)
         ELSE IF attempts + 1 > retries
         THEN FailedAfter(attempts + 1, outcomes[attempts + 1])
         ELSE retryLoopNoThrow(attempts + 1, retries, outcomes[attempts + 1], outcomes)
    ELSE Unexpected(attempts, lastError)

RECURSIVE retryLoop(_, _, _, _)
\* while (attempts < retries) { try { ...; return } catch { lastError = error;
\* attempts++; if (attempts >= retries) throw 'Failed after ...' } }
\* throw 'Unexpected error ...'; outcomes[n] is how the n-th attempt ends
retryLoop(attempts, retries, lastError, outcomes) ==
    IF attempts < retries
    THEN IF outcomes[attempts + 1] = "ok" THEN Returned(attempts + 1)
         ELSE IF attempts + 1 >= retries
         THEN FailedAfter(attempts + 1, outcomes[attempts + 1])
         ELSE retryLoop(attempts + 1, retries, outcomes[attempts + 1], outcomes)
    ELSE Unexpected(attempts, lastError)

\* part_003, first variant (check = "yes") and second variant: the syntax
\* of the user's code, the optimization check, the code request, the
\* explanation; every failure is rethrown as 'Failed to optimize code: ...'
getOptimizedCodeV(v, userCode, det, syn, localOk, check, gen, expl) ==
    LET language == detectedLanguage(det)
        valid == validateSyntax(v, syn, language, localOk)
        failed1 == det = "throws" \/ syn \in {"throws", "badjson"}
    IN  IF ~valid THEN Result(TRUE, <<>>, failed1)
        ELSE IF v = "v2" /\ check = "throws" THEN Result(TRUE, <<>>, TRUE)
        ELSE IF v = "v2" /\ check = "no" THEN Result(FALSE, userCode, failed1)
        ELSE IF gen.kind \in {"throws", "noresp"} THEN Result(TRUE, <<>>, TRUE)
        ELSE IF refineThrows(v, language) THEN Result(TRUE, <<>>, failed1)
        ELSE Result(FALSE, refineOptimizedCode(trim(trim(gen.text)), language),
                    failed1 \/ expl = "throws")

\* the requests getOptimizedCode sends to the language service, in order
requestsV(v, det, syn, localOk, check, gen) ==
    LET language == detectedLanguage(det)
        valid == validateSyntax(v, syn, language, localOk)
        checked == IF v = "v2" THEN <<"detect", "syntax", "check">>
                   ELSE <<"detect", "syntax">>
    IN  IF ~valid THEN <<"detect", "syntax">>
        ELSE IF v = "v2" /\ check # "yes" THEN checked
        ELSE IF gen.kind \in {"throws", "noresp"} \/ refineThrows(v, language)
        THEN checked \o <<"optimize">>
        ELSE checked \o <<"optimize", "explain">>

\* the explanation getOptimizedCode returns: none when it throws, the fixed
\* 'No optimizations were found...', the service's, or the fallback text
explanationV(v, det, syn, localOk, check, gen, expl) ==
    LET language == detectedLanguage(det)
        valid == validateSyntax(v, syn, language, localOk)
    IN  IF ~valid \/ (v = "v2" /\ check = "throws") THEN "none"
        ELSE IF v = "v2" /\ check = "no" THEN "No optimizations were found"
        ELSE IF gen.kind \in {"throws", "noresp"} \/ refineThrows(v, language)
        THEN "none"
        ELSE IF expl = "throws" THEN "fallback"
        ELSE "generated"

\* what getOptimizedCode(userCode) can come to, for every answer of the
\* collaborators
OptimizeResults(v, userCode) ==
    IF v \in RetryVariants THEN getOptimizedCodeRetry(v, userCode)
    ELSE {getOptimizedCodeV(v, userCode, det, syn, localOk, check, gen, expl) :
            det \in DetectAnswers, syn \in SyntaxAnswers, localOk \in BOOLEAN,
            check \in (IF v = "v2" THEN CheckAnswers ELSE {"yes"}),
            gen \in GenAnswers, expl \in ExplainAnswers}

\* what the command sees of getOptimizedCode(userCode): it threw, or the
\* code; of the retrying variants that is the outcome of one attempt, the
\* first that succeeds or the last that fails
OptimizeOutcomes(v, userCode) ==
    {[failed |-> r.failed, code |-> r.code] :
        r \in IF v \in RetryVariants THEN AttemptResults(v, userCode)
              ELSE OptimizeResults(v, userCode)}

\* the page's test as it would be if it took every optimized code for new
isOptimizedAlways(original, optimized) == TRUE

\* getWebviewContent: isOptimized = optimizedCode !== originalCode
isOptimized(original, optimized) == optimized # original

\* the command's test as it would be if it let every returned text through
isErrorResultNever(optimizedCode) == FALSE

\* the command's test of the returned text: empty, or with "Error" in it
isErrorResult(optimizedCode) ==
    optimizedCode = <<>> \/ includes(optimizedCode, ERR)

\* ---------------------------------------------------------------- state
VARIABLES
    variant,          \* which variant of the extension runs
    hasEditor,        \* vscode.window.activeTextEditor is set
    document,         \* the text of the editor's document
    selection,        \* editor.selection, as offsets from..to
    diffLoaded,       \* window.Diff is defined in the review page
    pc,               \* the command: idle, optimizing, quickpick, review, done
    userCode,         \* the text the command captured
    docBefore,        \* the document's text when the command started
    code,             \* the optimized code getOptimizedCode returned
    gocFailed,        \* getOptimizedCode threw or returned its error text
    collabFailed,     \* a call of a collaborator failed in this attempt
    errorShown,       \* showErrorMessage was called
    panel,            \* the review panel: none, open, disposed
    hasOptimizedView, \* the page has #optimized-code and the two buttons
    originalCode,     \* the page: the text of "#original code"
    optimizedCode,    \* the page: the text of "#optimized-code" at load
    diff,             \* highlightChanges: the parts diffLines returned
    spans,            \* the children of #optimized-code: text and class
    wpc,              \* the page script: none, static, loaded, rendered, failed
    clicks,           \* clicks on Accept and Reject so far
    inbox,            \* messages posted by the page, not yet received
    pending,          \* edits handed to applyEdit, not yet applied
    accepted,         \* an accept decision was received
    rejected,         \* a reject decision was received
    edits,            \* edits of the document made by the command
    lastEdit,         \* the last such edit: the text written, the text shown
    call,             \* a facility called on its own: its arguments, its result
    cycles            \* the command run several times: each run's closure

vars == <<variant, hasEditor, document, selection, diffLoaded, pc, userCode,
          docBefore, code, gocFailed, collabFailed, errorShown, panel,
          hasOptimizedView, originalCode, optimizedCode, diff, spans, wpc,
          clicks, inbox, pending, accepted, rejected, edits, lastEdit, call,
          cycles>>

\* what no step of the optimize command or of the review page changes
editorVars == <<variant, hasEditor, selection, diffLoaded, call, cycles>>
pageVars == <<hasOptimizedView, originalCode, optimizedCode, diff, spans, wpc>>
hostVars == <<pc, userCode, docBefore, code, gocFailed, collabFailed, errorShown>>
decisionVars == <<accepted, rejected>>

NoEdit == [text |-> <<>>, shown |-> <<>>]

\* a call of formatCode or validateSyntax: the variant called, the arguments,
\* the collaborator's answer, what the local check finds, the text or the
\* isValid returned; for the pattern-based detectLanguage the languages whose
\* pattern matches the code
Call(fn, v, input, language, answer, localOk, matches, text, valid) ==
    [fn |-> fn, v |-> v, code |-> input, language |-> language, answer |-> answer,
     localOk |-> localOk, matches |-> matches, text |-> text, valid |-> valid,
     reply |-> <<>>, issues |-> <<>>, requests |-> <<>>, explanation |-> "none",
     retries |-> 0, outcomes |-> <<>>, loop |-> Returned(0)]
NoCall ==
    Call("none", "none", <<>>, "unknown", Answer("none", <<>>), FALSE, {}, <<>>, FALSE)

\* --------------------------------------------- the command run several times
\* two runs of the command, their review cycles open at the same time
CycleIds == {1, 2}

\* what one run of the handler holds in its closure: userCode, the code
\* getOptimizedCode returned, its panel, the edit it handed to applyEdit;
\* editsAtOpen is the number of edits made when its panel was opened
Cycle(at, text, optimized, webview, edit, editsAtOpen) ==
    [pc |-> at, userCode |-> text, code |-> optimized, panel |-> webview,
     edit |-> edit, editsAtOpen |-> editsAtOpen]
NoRange == [start |-> [line |-> 0, character |-> 0],
            end |-> [line |-> 0, character |-> 0]]
IdleCycle == Cycle("idle", <<>>, <<>>, "none", NoRange, 0)
NoCycles == [i \in CycleIds |-> IdleCycle]

\* the code as it would be if the runs held it in one place: that of the
\* last run that has one
sharedCode(i) ==
    LET have == {j \in CycleIds : cycles[j].pc \in {"review", "applying"}}
    IN  cycles[CHOOSE j \in have : \A k \in have : k <= j].code

\* `code` in the accept handler: the const of the run's own callback
closureCode(i) == cycles[i].code

\* ------------------------------------------------------ the review page
spanClass(part) ==
    IF part.added THEN "hl-added"
    ELSE IF part.removed THEN "hl-removed"
    ELSE "hl-unchanged"

renderParts(parts) ==
    [i \in 1..Len(parts) |-> [text |-> parts[i].value, class |-> spanClass(parts[i])]]

\* the innerText of #optimized-code: the text of its children, in order
innerText(children) == Concat([i \in 1..Len(children) |-> children[i].text])

\* the view with its children kept, as it would be without innerHTML = ""
notEmptied(children) == children

\* optimizedCodeElement.innerHTML = "": the view has no child left
emptied(children) == <<>>

\* diff.forEach(... appendChild(span)): a span per part after the children
appendSpans(children, parts) == children \o renderParts(parts)

\* highlightChanges(originalCode, optimizedCode), called by the page's
\* DOMContentLoaded handler: the diff, the view emptied, one span per part
highlightChanges ==
    /\ panel = "open"
    /\ wpc = "loaded"
    /\ hasOptimizedView
    /\ diffLoaded
    /\ diff' = diffLines(originalCode, optimizedCode)
    /\ spans' = appendSpans(emptied(spans), diffLines(originalCode, optimizedCode))
    /\ wpc' = "rendered"
    /\ UNCHANGED <<editorVars, hostVars, decisionVars, document, panel,
                   hasOptimizedView, originalCode, optimizedCode, clicks,
                   inbox, pending, edits, lastEdit>>

\* highlightChanges called once more with the pair it was called with
highlightChangesAgain ==
    /\ panel = "open"
    /\ wpc = "rendered"
    /\ diff' = diffLines(originalCode, optimizedCode)
    /\ spans' = appendSpans(emptied(spans), diffLines(originalCode, optimizedCode))
    /\ wpc' = "rerendered"
    /\ UNCHANGED <<editorVars, hostVars, decisionVars, document, panel,
                   hasOptimizedView, originalCode, optimizedCode, clicks,
                   inbox, pending, edits, lastEdit>>

\* the handler as it would be if it took a missing element's text for the
\* empty text and rendered
ScriptRendersMissing ==
    /\ panel = "open"
    /\ wpc = "loaded"
    /\ ~(hasOptimizedView /\ diffLoaded)
    /\ diff' = lineDiff(originalCode, IF hasOptimizedView THEN optimizedCode ELSE <<>>)
    /\ spans' = renderParts(lineDiff(originalCode,
                     IF hasOptimizedView THEN optimizedCode ELSE <<>>))
    /\ wpc' = "rendered"
    /\ UNCHANGED <<editorVars, hostVars, decisionVars, document, panel,
                   hasOptimizedView, originalCode, optimizedCode, clicks,
                   inbox, pending, edits, lastEdit>>

\* the DOMContentLoaded handler throws: there is no #optimized-code to read,
\* or highlightChanges finds no Diff; the view stays as it is
ScriptFails ==
    /\ panel = "open"
    /\ wpc = "loaded"
    /\ ~(hasOptimizedView /\ diffLoaded)
    /\ wpc' = "failed"
    /\ UNCHANGED <<editorVars, hostVars, decisionVars, document, panel,
                   hasOptimizedView, originalCode, optimizedCode, diff, spans,
                   clicks, inbox, pending, edits, lastEdit>>

\* accept(): the page posts accept with the text its view shows (script.js);
\* the inline pages of part_002 and part_003 post accept alone, their view
\* is the code as it was written into the page
ClickAccept ==
    /\ panel = "open"
    /\ hasOptimizedView
    /\ clicks < MaxClicks
    /\ clicks' = clicks + 1
    /\ inbox' = Append(inbox,
          [command |-> "accept",
           code |-> IF variant \in ScriptPageVariants THEN innerText(spans)
                    ELSE optimizedCode])
    /\ UNCHANGED <<editorVars, hostVars, decisionVars, pageVars, document,
                   panel, pending, edits, lastEdit>>

\* reject()
ClickReject ==
    /\ panel = "open"
    /\ hasOptimizedView
    /\ clicks < MaxClicks
    /\ clicks' = clicks + 1
    /\ inbox' = Append(inbox, [command |-> "reject", code |-> <<>>])
    /\ UNCHANGED <<editorVars, hostVars, decisionVars, pageVars, document,
                   panel, pending, edits, lastEdit>>

\* ---------------------------------------------------- the optimize command
selectedText == SubSeq(document, selection.from + 1, selection.to)

\* the command handler as it would be without its two checks
RunCommandUnchecked ==
    /\ pc = "idle"
    /\ pc' = "optimizing"
    /\ userCode' = IF variant \in SelectionVariants THEN selectedText ELSE document
    /\ docBefore' = document
    /\ UNCHANGED <<editorVars, pageVars, decisionVars, document, code, gocFailed,
                   collabFailed, errorShown, panel, clicks, inbox, pending, edits,
                   lastEdit>>

\* the command handler up to its first await: the editor check, the text
\* captured (the selection, or the whole document), the empty-selection check
RunCommand ==
    /\ pc = "idle"
    /\ LET text == IF variant \in SelectionVariants THEN selectedText ELSE document
       IN  IF ~hasEditor \/ (variant \in SelectionVariants /\ text = <<>>)
           THEN /\ errorShown' = TRUE
                /\ pc' = "done"
                /\ UNCHANGED <<userCode, docBefore>>
           ELSE /\ pc' = "optimizing"
                /\ userCode' = text
                /\ docBefore' = document
                /\ UNCHANGED errorShown
    /\ UNCHANGED <<editorVars, pageVars, decisionVars, document, code, gocFailed,
                   collabFailed, panel, clicks, inbox, pending, edits, lastEdit>>

\* src/src/extension.js: getOptimizedCode returns, the error test, and the
\* selection replaced at once
OptimizeDirect ==
    /\ pc = "optimizing"
    /\ variant = "js"
    /\ \E gen \in GenAnswers :
         LET r == getOptimizedCodeJs(gen) IN
         /\ gocFailed' = r.failed
         /\ collabFailed' = r.collab
         /\ code' = r.code
         /\ IF isErrorResult(r.code)
            THEN /\ errorShown' = TRUE
                 /\ UNCHANGED <<document, edits, lastEdit>>
            ELSE /\ document' = replaceRange(document, selection.from, selection.to, r.code)
                 /\ edits' = edits + 1
                 /\ lastEdit' = [text |-> r.code, shown |-> <<>>]
                 /\ UNCHANGED errorShown
    /\ pc' = "done"
    /\ UNCHANGED <<editorVars, pageVars, decisionVars, userCode, docBefore,
                   panel, clicks, inbox, pending>>

\* part_004: getOptimizedCode returns, the error test, the explanation shown
\* and the quick pick opened
OptimizeQuickPick ==
    /\ pc = "optimizing"
    /\ variant = "qp"
    /\ \E language \in Languages, gen \in GenAnswers, synOk \in BOOLEAN,
          fmt \in FormatAnswers :
         LET r == getOptimizedCodeQp(language, gen, synOk, fmt) IN
         /\ gocFailed' = r.failed
         /\ collabFailed' = r.collab
         /\ code' = r.code
         /\ IF isErrorResult(r.code)
            THEN errorShown' = TRUE /\ pc' = "done"
            ELSE pc' = "quickpick" /\ UNCHANGED errorShown
    /\ UNCHANGED <<editorVars, pageVars, decisionVars, document, userCode,
                   docBefore, panel, clicks, inbox, pending, edits, lastEdit>>

\* the quick pick's test as it would be if all but a reject were an accept
QuickPickNotReject ==
    /\ pc = "quickpick"
    /\ \E choice \in {"Accept Changes", "Reject Changes", "dismissed"} :
         IF choice # "Reject Changes"
         THEN /\ document' = replaceRange(document, selection.from, selection.to, code)
              /\ edits' = edits + 1
              /\ lastEdit' = [text |-> code, shown |-> <<>>]
              /\ accepted' = (choice = "Accept Changes")
              /\ UNCHANGED rejected
         ELSE /\ rejected' = TRUE
              /\ UNCHANGED <<document, edits, lastEdit, accepted>>
    /\ pc' = "done"
    /\ UNCHANGED <<editorVars, pageVars, userCode, docBefore, code, gocFailed,
                   collabFailed, errorShown, panel, clicks, inbox, pending>>

\* part_004: the quick pick answers; undefined when it is dismissed
QuickPick ==
    /\ pc = "quickpick"
    /\ \E choice \in {"Accept Changes", "Reject Changes", "dismissed"} :
         IF choice = "Accept Changes"
         THEN /\ document' = replaceRange(document, selection.from, selection.to, code)
              /\ edits' = edits + 1
              /\ lastEdit' = [text |-> code, shown |-> <<>>]
              /\ accepted' = TRUE
              /\ UNCHANGED rejected
         ELSE /\ rejected' = (choice = "Reject Changes")
              /\ UNCHANGED <<document, edits, lastEdit, accepted>>
    /\ pc' = "done"
    /\ UNCHANGED <<editorVars, pageVars, userCode, docBefore, code, gocFailed,
                   collabFailed, errorShown, panel, clicks, inbox, pending>>

\* the panel variants: getOptimizedCode returns or throws inside the
\* withProgress callback; on a result the panel is created, its page set
\* (getWebviewContent) and the message handler registered
OptimizePanel ==
    /\ pc = "optimizing"
    /\ variant \in PanelVariants
    /\ \E r \in OptimizeResults(variant, userCode) :
         /\ gocFailed' = r.failed
         /\ collabFailed' = r.collab
         /\ IF r.failed
            THEN /\ errorShown' = (variant \in AwaitedVariants)
                 /\ pc' = "done"
                 /\ UNCHANGED <<code, panel, pageVars>>
            ELSE /\ code' = r.code
                 /\ panel' = "open"
                 /\ pc' = "review"
                 /\ originalCode' = userCode
                 /\ optimizedCode' = r.code
                 /\ hasOptimizedView' =
                        (variant \in ScriptPageVariants => isOptimized(userCode, r.code))
                 /\ spans' = IF variant \in ScriptPageVariants
                                /\ ~isOptimized(userCode, r.code)
                             THEN <<>>
                             ELSE <<[text |-> r.code, class |-> "none"]>>
                 /\ wpc' = IF variant \in ScriptPageVariants THEN "loaded" ELSE "static"
                 /\ UNCHANGED <<diff, errorShown>>
    /\ UNCHANGED <<editorVars, decisionVars, document, userCode, docBefore,
                   clicks, inbox, pending, edits, lastEdit>>

\* onDidReceiveMessage, case 'accept', up to its await: the range from the
\* start to positionAt(userCode.length), replaced by the code the command
\* holds, handed to applyEdit
HandleAccept ==
    /\ panel = "open"
    /\ inbox # <<>>
    /\ Head(inbox).command = "accept"
    /\ inbox' = Tail(inbox)
    /\ accepted' = TRUE
    /\ pending' = Append(pending,
          [start |-> positionAt(document, 0),
           end |-> positionAt(document, Len(userCode)),
           text |-> code,
           shown |-> Head(inbox).code])
    /\ UNCHANGED <<editorVars, pageVars, hostVars, document, panel, clicks,
                   rejected, edits, lastEdit>>

\* applyEdit completes and the handler goes on: the document's range is
\* replaced, the panel disposed
AcceptApplied ==
    /\ pending # <<>>
    /\ LET e == Head(pending) IN
       /\ document' = replaceRange(document, offsetAt(document, e.start),
                                   offsetAt(document, e.end), e.text)
       /\ lastEdit' = [text |-> e.text, shown |-> e.shown]
    /\ pending' = Tail(pending)
    /\ edits' = edits + 1
    /\ panel' = "disposed"
    /\ UNCHANGED <<editorVars, pageVars, hostVars, decisionVars, clicks, inbox>>

\* case 'reject' as it would be if it ran the statements of case 'accept'
\* before disposing the panel
HandleRejectWrites ==
    /\ panel = "open"
    /\ inbox # <<>>
    /\ Head(inbox).command = "reject"
    /\ inbox' = Tail(inbox)
    /\ rejected' = TRUE
    /\ panel' = "disposed"
    /\ document' = replaceRange(document, 0,
                        offsetAt(document, positionAt(document, Len(userCode))), code)
    /\ edits' = edits + 1
    /\ lastEdit' = [text |-> code, shown |-> <<>>]
    /\ UNCHANGED <<editorVars, pageVars, hostVars, clicks, pending, accepted>>

\* onDidReceiveMessage, case 'reject': the panel disposed, nothing else
HandleReject ==
    /\ panel = "open"
    /\ inbox # <<>>
    /\ Head(inbox).command = "reject"
    /\ inbox' = Tail(inbox)
    /\ rejected' = TRUE
    /\ panel' = "disposed"
    /\ UNCHANGED <<editorVars, pageVars, hostVars, document, clicks, pending,
                   accepted, edits, lastEdit>>

\* the reviewer closes the panel
ClosePanel ==
    /\ panel = "open"
    /\ panel' = "disposed"
    /\ UNCHANGED <<editorVars, pageVars, hostVars, decisionVars, document,
                   clicks, inbox, pending, edits, lastEdit>>

\* the user types in the editor while the command optimizes or the review
\* is open: the document, until then as the command found it, is another text
UserEdits ==
    /\ variant \in PanelVariants
    /\ pc \in {"optimizing", "review"}
    /\ panel # "disposed"
    /\ document = docBefore
    /\ \E text \in DocTexts :
         /\ text # document
         /\ document' = text
    /\ UNCHANGED <<editorVars, pageVars, hostVars, decisionVars, panel, clicks,
                   inbox, pending, edits, lastEdit>>

\* ------------------------------------------- several runs of the command
singleRunVars ==
    <<variant, hasEditor, selection, diffLoaded, call, pageVars, hostVars,
      decisionVars, panel, clicks, inbox, pending>>

\* a run of the handler up to its first await: userCode is the document;
\* the runs are numbered in the order in which they start
RunCommandCycle ==
    \E i \in CycleIds :
        /\ cycles[i].pc = "idle"
        /\ \A j \in CycleIds : j < i => cycles[j].pc # "idle"
        /\ cycles' = [cycles EXCEPT ![i] =
                         Cycle("optimizing", document, <<>>, "none", NoRange, 0)]
        /\ UNCHANGED <<singleRunVars, document, edits, lastEdit>>

\* getOptimizedCode returns or throws; on a result the run's panel is created
OptimizeCycle ==
    \E i \in CycleIds :
        /\ cycles[i].pc = "optimizing"
        /\ \E r \in OptimizeOutcomes(variant, cycles[i].userCode) :
             cycles' = [cycles EXCEPT ![i] =
                 IF r.failed
                 THEN Cycle("done", cycles[i].userCode, <<>>, "none", NoRange, 0)
                 ELSE Cycle("review", cycles[i].userCode, r.code, "open", NoRange,
                            edits)]
        /\ UNCHANGED <<singleRunVars, document, edits, lastEdit>>

\* the run's onDidReceiveMessage, case 'accept', up to its await
AcceptCycle ==
    \E i \in CycleIds :
        /\ cycles[i].pc = "review"
        /\ cycles[i].panel = "open"
        /\ cycles' = [cycles EXCEPT
                         ![i].pc = "applying",
                         ![i].edit = [start |-> positionAt(document, 0),
                                      end |-> positionAt(document,
                                                         Len(cycles[i].userCode))]]
        /\ UNCHANGED <<singleRunVars, document, edits, lastEdit>>

\* applyEdit completes: the range replaced by the run's code, its panel
\* disposed
AppliedCycle ==
    \E i \in CycleIds :
        /\ cycles[i].pc = "applying"
        /\ document' = replaceRange(document,
                                    offsetAt(document, cycles[i].edit.start),
                                    offsetAt(document, cycles[i].edit.end),
                                    closureCode(i))
        /\ lastEdit' = [text |-> closureCode(i), shown |-> <<>>]
        /\ edits' = edits + 1
        /\ cycles' = [cycles EXCEPT ![i].pc = "accepted", ![i].panel = "disposed"]
        /\ UNCHANGED singleRunVars

\* the run's onDidReceiveMessage, case 'reject'
RejectCycle ==
    \E i \in CycleIds :
        /\ cycles[i].pc = "review"
        /\ cycles[i].panel = "open"
        /\ cycles' = [cycles EXCEPT ![i].pc = "rejected", ![i].panel = "disposed"]
        /\ UNCHANGED <<singleRunVars, document, edits, lastEdit>>

\* ------------------------------------------------------- specifications
Selections(text) ==
    {[from |-> f, to |-> t] : f \in 0..Len(text), t \in 0..Len(text)}

\* the extension activated, an editor open (or none), the command not run
Init ==
    /\ variant \in Variants
    /\ hasEditor \in BOOLEAN
    /\ document \in DocTexts
    /\ selection \in IF variant \in SelectionVariants
                     THEN {s \in Selections(document) : s.from <= s.to}
                     ELSE {[from |-> 0, to |-> 0]}
    /\ diffLoaded \in IF variant \in ScriptPageVariants THEN BOOLEAN ELSE {FALSE}
    /\ pc = "idle"
    /\ userCode = <<>>
    /\ docBefore = <<>>
    /\ code = <<>>
    /\ gocFailed = FALSE
    /\ collabFailed = FALSE
    /\ errorShown = FALSE
    /\ panel = "none"
    /\ hasOptimizedView = FALSE
    /\ originalCode = <<>>
    /\ optimizedCode = <<>>
    /\ diff = <<>>
    /\ spans = <<>>
    /\ wpc = "none"
    /\ clicks = 0
    /\ inbox = <<>>
    /\ pending = <<>>
    /\ accepted = FALSE
    /\ rejected = FALSE
    /\ edits = 0
    /\ lastEdit = NoEdit
    /\ call = NoCall
    /\ cycles = NoCycles

Next ==
    \/ RunCommand
    \/ OptimizeDirect
    \/ OptimizeQuickPick
    \/ QuickPick
    \/ OptimizePanel
    \/ highlightChanges
    \/ ScriptFails
    \/ ClickAccept
    \/ ClickReject
    \/ HandleAccept
    \/ AcceptApplied
    \/ HandleReject
    \/ ClosePanel

Spec == Init /\ [][Next]_vars

\* the command run twice on one editor, the two runs interleaved
InitCycles ==
    /\ Init
    /\ variant \in PanelVariants
    /\ hasEditor

NextCycles ==
    \/ RunCommandCycle
    \/ OptimizeCycle
    \/ AcceptCycle
    \/ AppliedCycle
    \/ RejectCycle

SpecCycles == InitCycles /\ [][NextCycles]_vars

\* the review cycle with a user who edits the document meanwhile
NextEdit == Next \/ UserEdits

SpecEdit == Init /\ [][NextEdit]_vars

\* the line diff as a function of any two texts: the review page of any
\* pair (original, modified), with window.Diff defined, at DOMContentLoaded
InitDiff ==
    /\ variant = "v1"
    /\ hasEditor = TRUE
    /\ originalCode \in TextsUpTo(MaxLen)
    /\ optimizedCode \in TextsUpTo(MaxLen)
    /\ document = originalCode
    /\ selection = [from |-> 0, to |-> 0]
    /\ diffLoaded = TRUE
    /\ pc = "review"
    /\ userCode = originalCode
    /\ docBefore = originalCode
    /\ code = optimizedCode
    /\ gocFailed = FALSE
    /\ collabFailed = FALSE
    /\ errorShown = FALSE
    /\ panel = "open"
    /\ hasOptimizedView = TRUE
    /\ diff = <<>>
    /\ spans = <<[text |-> optimizedCode, class |-> "none"]>>
    /\ wpc = "loaded"
    /\ clicks = 0
    /\ inbox = <<>>
    /\ pending = <<>>
    /\ accepted = FALSE
    /\ rejected = FALSE
    /\ edits = 0
    /\ lastEdit = NoEdit
    /\ call = NoCall
    /\ cycles = NoCycles

NextDiff == highlightChanges

SpecDiff == InitDiff /\ [][NextDiff]_vars

\* the facilities formatCode and validateSyntax, called on their own with
\* any code, language and answer of the formatter or of the language service
InitCalls ==
    /\ Init
    /\ variant = "v2"
    /\ hasEditor
    /\ document = <<>>

ServiceVariants == {"p2", "v1", "v2", "v3"}

CallFormatCode ==
    /\ call.fn = "none"
    /\ \E v \in FormatVariants, c \in DocTexts, language \in Languages,
          fmt \in FormatAnswers :
         call' = Call("formatCode", v, c, language, fmt, FALSE, {},
                      formatCodeOf(v, c, language, fmt), TRUE)
    /\ UNCHANGED <<variant, hasEditor, selection, diffLoaded, pageVars, hostVars,
                   decisionVars, document, panel, clicks, inbox, pending, edits,
                   lastEdit, cycles>>

CallValidateSyntax ==
    /\ call.fn = "none"
    /\ \E v \in ServiceVariants, c \in DocTexts, language \in Languages,
          answer \in SyntaxAnswers, localOk \in BOOLEAN :
         call' = Call("validateSyntax", v, c, language, Answer(answer, <<>>), localOk,
                      {}, <<>>, validateSyntax(v, answer, language, localOk))
    /\ UNCHANGED <<variant, hasEditor, selection, diffLoaded, pageVars, hostVars,
                   decisionVars, document, panel, clicks, inbox, pending, edits,
                   lastEdit, cycles>>

\* validateSyntax called with the service's answer in full: the issues it
\* lists, the issues and the isValid returned
CallValidateSyntaxIssues ==
    /\ call.fn = "none"
    /\ \E v \in ServiceVariants, language \in Languages, reply \in SyntaxReplies,
          localOk \in BOOLEAN :
         call' = [Call("validateSyntaxIssues", v, <<>>, language,
                       Answer(reply.kind, <<>>), localOk, {}, <<>>,
                       validateSyntax(v, syntaxAnswer(reply), language, localOk))
                  EXCEPT !.reply = reply.issues,
                         !.issues = validateSyntaxIssues(v, reply, language, localOk)]
    /\ UNCHANGED <<variant, hasEditor, selection, diffLoaded, pageVars, hostVars,
                   decisionVars, document, panel, clicks, inbox, pending, edits,
                   lastEdit, cycles>>

\* getOptimizedCode(userCode) of part_003 (first and second variant), with
\* every answer of the collaborators: `valid` is that it returned, `text`
\* the code returned
CallGetOptimizedCode ==
    /\ call.fn = "none"
    /\ \E v \in AwaitedVariants, c \in DocTexts, det \in DetectAnswers,
          syn \in SyntaxAnswers, localOk \in BOOLEAN, reply \in CheckReplies,
          gen \in GenAnswers, expl \in ExplainAnswers :
         LET check == IF v = "v2" THEN checkAnswer(reply) ELSE "yes"
             r == getOptimizedCodeV(v, c, det, syn, localOk, check, gen, expl)
         IN  call' = [Call("getOptimizedCode", v, c, detectedLanguage(det),
                           IF v = "v2" THEN reply ELSE Answer("none", <<>>),
                           localOk, {}, r.code, ~r.failed)
                      EXCEPT !.requests = requestsV(v, det, syn, localOk, check, gen),
                             !.explanation =
                                 explanationV(v, det, syn, localOk, check, gen, expl)]
    /\ UNCHANGED <<variant, hasEditor, selection, diffLoaded, pageVars, hostVars,
                   decisionVars, document, panel, clicks, inbox, pending, edits,
                   lastEdit, cycles>>

\* getOptimizedCode(userCode, retries) of part_002 and part_003 (third
\* variant): attempts = 0, lastError = null, then the loop
CallGetOptimizedCodeRetry ==
    /\ call.fn = "none"
    /\ \E v \in RetryVariants, retries \in 0..MaxRetries,
          outcomes \in [1..MaxRetries -> AttemptOutcomes] :
         call' = [Call("getOptimizedCodeRetry", v, <<>>, "unknown",
                       Answer("none", <<>>), FALSE, {}, <<>>,
                       retryLoop(0, retries, "none", outcomes).kind = "returned")
                  EXCEPT !.retries = retries,
                         !.outcomes = outcomes,
                         !.loop = retryLoop(0, retries, "none", outcomes)]
    /\ UNCHANGED <<variant, hasEditor, selection, diffLoaded, pageVars, hostVars,
                   decisionVars, document, panel, clicks, inbox, pending, edits,
                   lastEdit, cycles>>

CallDetectLanguage ==
    /\ call.fn = "none"
    /\ \E v \in ServiceVariants, answer \in LanguageAnswers :
         call' = Call("detectLanguage", v, <<>>, "unknown", answer, FALSE, {},
                      detectLanguage(v, answer), TRUE)
    /\ UNCHANGED <<variant, hasEditor, selection, diffLoaded, pageVars, hostVars,
                   decisionVars, document, panel, clicks, inbox, pending, edits,
                   lastEdit, cycles>>

CallDetectLanguagePattern ==
    /\ call.fn = "none"
    /\ \E v \in SelectionVariants, matches \in PatternMatches :
         call' = Call("detectLanguagePattern", v, <<>>, "unknown",
                      Answer("none", <<>>), FALSE, matches,
                      detectLanguagePattern(matches), TRUE)
    /\ UNCHANGED <<variant, hasEditor, selection, diffLoaded, pageVars, hostVars,
                   decisionVars, document, panel, clicks, inbox, pending, edits,
                   lastEdit, cycles>>

NextCalls ==
    \/ CallFormatCode
    \/ CallValidateSyntax
    \/ CallValidateSyntaxIssues
    \/ CallGetOptimizedCode
    \/ CallGetOptimizedCodeRetry
    \/ CallDetectLanguage
    \/ CallDetectLanguagePattern

SpecCalls == InitCalls /\ [][NextCalls]_vars

\* highlightChanges as an operation on the view: the page of any two texts,
\* rendered, and rendered once more with the same two texts
NextRender == highlightChanges \/ highlightChangesAgain

SpecRender == InitDiff /\ [][NextRender]_vars

\* ------------------------------------------------ properties of the diff
NotRemoved(part) == ~part.removed
NotAdded(part) == ~part.added
Unchanged(part) == ~part.added /\ ~part.removed
Values(parts) == [i \in 1..Len(parts) |-> parts[i].value]
\* the text of the parts that belong to the modified / to the original text
ModifiedSide(parts) == Concat(Values(SelectSeq(parts, NotRemoved)))
OriginalSide(parts) == Concat(Values(SelectSeq(parts, NotAdded)))
kind(part) == spanClass(part)

\* C1: the segments of kinds unchanged and added, concatenated in order, are
\* exactly the modified text; those of kinds unchanged and removed are
\* exactly the original text.
C1_Reconstruction ==
    wpc = "rendered" =>
        /\ ModifiedSide(diff) = optimizedCode
        /\ OriginalSide(diff) = originalCode

\* a diff with a removed, an added and an unchanged segment was computed
C1_Witness ==
    /\ wpc = "rendered"
    /\ \E i, j, k \in 1..Len(diff) :
          diff[i].removed /\ diff[j].added /\ Unchanged(diff[k])

C3_EmptyOriginal ==
    (wpc = "rendered" /\ originalCode = <<>> /\ optimizedCode # <<>>) =>
        /\ Len(diff) = 1
        /\ diff[1].added /\ ~diff[1].removed
        /\ diff[1].value = optimizedCode

\* the diff of the empty text with a text of several lines was computed
C3_Witness ==
    /\ wpc = "rendered"
    /\ originalCode = <<>>
    /\ Len(tokenize(optimizedCode)) >= 2

\* C4: the diff of a non-empty text with the empty text is a single segment,
\* removed, whose text is the non-empty text.
C4_EmptyModified ==
    (wpc = "rendered" /\ originalCode # <<>> /\ optimizedCode = <<>>) =>
        /\ Len(diff) = 1
        /\ diff[1].removed /\ ~diff[1].added
        /\ diff[1].value = originalCode

\* the diff of a text of several lines with the empty text was computed
C4_Witness ==
    /\ wpc = "rendered"
    /\ optimizedCode = <<>>
    /\ Len(tokenize(originalCode)) >= 2

\* a line: characters other than the new line, then the new line
IsLine(t) ==
    /\ t # <<>>
    /\ t[Len(t)] = NL
    /\ \A i \in 1..(Len(t) - 1) : t[i] # NL

InsertedLine(L1, N, L2) ==
    /\ IsLine(L1) /\ IsLine(N) /\ IsLine(L2)
    /\ N # L1
    /\ N # L2
    /\ originalCode = L1 \o L2
    /\ optimizedCode = L1 \o N \o L2

\* C5: when the modified text is the original text of two lines L1 L2 with
\* a line N, other than L1 and L2, inserted between them (the scenario
\* "x = 1\ny = 2\n" to "x = 1\nz = 3\ny = 2\n"), the segments are
\* unchanged(L1), added(N), unchanged(L2).
C5_InsertedLine ==
    wpc = "rendered" =>
        \A i \in 1..Len(optimizedCode), j \in 1..Len(optimizedCode) :
            LET L1 == SubSeq(optimizedCode, 1, i)
                N == SubSeq(optimizedCode, i + 1, j)
                L2 == SubSeq(optimizedCode, j + 1, Len(optimizedCode))
            IN  InsertedLine(L1, N, L2) =>
                    /\ Len(diff) = 3
                    /\ Unchanged(diff[1]) /\ diff[1].value = L1
                    /\ diff[2].added /\ ~diff[2].removed /\ diff[2].value = N
                    /\ Unchanged(diff[3]) /\ diff[3].value = L2

\* the diff of such a pair, with three different lines, was computed
C5_Witness ==
    /\ wpc = "rendered"
    /\ \E i \in 1..Len(optimizedCode), j \in 1..Len(optimizedCode) :
          LET L1 == SubSeq(optimizedCode, 1, i)
              N == SubSeq(optimizedCode, i + 1, j)
              L2 == SubSeq(optimizedCode, j + 1, Len(optimizedCode))
          IN  InsertedLine(L1, N, L2) /\ L1 # L2

\* an offset of a text at which a line starts or the text ends
LineBoundary(text, offset) ==
    offset = 0 \/ offset = Len(text) \/ text[offset] = NL

\* C6: every segment is a run of whole lines of its text (the comparison is
\* by lines, never inside a line), and no two consecutive segments are of
\* the same kind (the runs are maximal).
C6_WholeLinesMaximalRuns ==
    wpc = "rendered" =>
        /\ \A i \in 1..Len(diff) :
              /\ diff[i].value # <<>>
              /\ LineBoundary(originalCode, Len(OriginalSide(SubSeq(diff, 1, i))))
              /\ LineBoundary(optimizedCode, Len(ModifiedSide(SubSeq(diff, 1, i))))
        /\ \A i \in 1..(Len(diff) - 1) : kind(diff[i]) # kind(diff[i + 1])

\* a diff of texts whose lines are longer than one character, with a
\* changed line between unchanged ones, was computed
C6_Witness ==
    /\ wpc = "rendered"
    /\ Len(diff) >= 3
    /\ \E i \in 1..Len(diff) : ~Unchanged(diff[i]) /\ Len(diff[i].value) >= 3

C8_RejectLeavesDocument ==
    (rejected /\ ~accepted) => (document = docBefore /\ edits = 0)

\* a review whose diff was rendered was rejected, its panel disposed, the
\* proposed code being another text than the document's
C8_Witness ==
    /\ rejected
    /\ ~accepted
    /\ wpc = "rendered"
    /\ panel = "disposed"
    /\ code # document

\* C9: no edit of the editor's text happens in a run of the optimize
\* command unless an accept was received in that run.
C9_EditOnlyOnAccept ==
    edits > 0 => accepted

\* C10 as stated: when a collaborator failed during the attempt (a call
\* threw, or its answer was malformed), no edit is applied.
C10_NoEditAfterCollaboratorFailure ==
    collabFailed => edits = 0

\* C10, amended: when getOptimizedCode failed (it threw, or returned its
\* error text, because a collaborator's failure was not made up for by a
\* fallback), no edit is applied and the document's text is unmodified.
C10_NoEditAfterFailedOptimization ==
    gocFailed => (edits = 0 /\ (pc # "idle" => document = docBefore))

\* the command has ended after getOptimizedCode failed on a collaborator
C10_Witness ==
    /\ gocFailed
    /\ collabFailed
    /\ pc = "done"

\* C11: whenever getOptimizedCode failed, the optimize command has shown an
\* error message when it ends, in every variant of the command handler.
C11_FailureSurfaced ==
    (gocFailed /\ pc = "done") => errorShown

\* what C12 asks of every step of a review cycle of the page with the diff
\* view
ReviewCycleStep ==
    variant \in ScriptPageVariants =>
        /\ (accepted' # accepted \/ rejected' # rejected) => wpc = "rendered"
        /\ panel = "disposed" =>
              UNCHANGED <<document, diff, spans, accepted, rejected, edits>>

\* C12: in a review cycle of the page with the diff view, a decision is
\* handled only after the diff was computed and rendered, and once the
\* panel is disposed (Closed) nothing of the cycle changes any more: no
\* diff, no render, no decision, no replacement.
C12_ReviewCycleOrder == [][ReviewCycleStep]_vars

\* C13: in one review cycle at most one replacement edit is applied to the
\* document, and no message is acted on after the first decision: never
\* both an accept and a reject.
C13_OneDecision ==
    variant \in PanelVariants => (edits <= 1 /\ ~(accepted /\ rejected))

\* C14: when the review surface is closed before any decision was made (the
\* panel closed with no button clicked, the quick pick shown and dismissed), no
\* replacement is applied and the document's text is unchanged.
C14_CloseIsReject ==
    (\/ variant \in PanelVariants /\ panel = "disposed" /\ clicks = 0
     \/ variant = "qp" /\ pc = "done" /\ ~errorShown /\ ~accepted /\ ~rejected)
        => (edits = 0 /\ document = docBefore)

\* the quick pick, offered for a code other than the selected text, was
\* dismissed
C14_Witness ==
    /\ variant = "qp"
    /\ pc = "done"
    /\ ~accepted /\ ~rejected
    /\ ~errorShown
    /\ code # userCode

\* ------------------------------------------- properties of the rendering
HlClasses == {"hl-added", "hl-removed", "hl-unchanged"}

\* C15: after rendering, the view holds exactly one span per segment, in the
\* segments' order, with the segment's text and exactly one of the classes
\* hl-added, hl-removed, hl-unchanged, chosen by the segment's kind; nothing
\* of what the view showed before is left.
C15_OneSpanPerSegment ==
    wpc = "rendered" =>
        /\ Len(spans) = Len(diff)
        /\ \A i \in 1..Len(spans) :
              /\ spans[i].text = diff[i].value
              /\ spans[i].class \in HlClasses
              /\ spans[i].class = "hl-added" <=> diff[i].added
              /\ spans[i].class = "hl-removed" <=> diff[i].removed
              /\ spans[i].class = "hl-unchanged" <=> Unchanged(diff[i])

\* a view rendered with spans of all three classes
C15_Witness ==
    /\ wpc = "rendered"
    /\ \A c \in HlClasses : \E i \in 1..Len(spans) : spans[i].class = c

\* the second of two calls in a row leaves the view as the first left it
RerenderStep ==
    (wpc = "rendered" /\ wpc' = "rerendered") => (spans' = spans /\ diff' = diff)

\* C16: rendering is idempotent: highlightChanges called twice in a row with
\* the same (original, modified) pair leaves the view with the same spans,
\* texts and classes as one call.
C16_RenderIdempotent == [][RerenderStep]_vars

\* a view of several spans rendered a second time
C16_Witness ==
    /\ wpc = "rerendered"
    /\ Len(spans) >= 2

\* the view as the page was loaded with it
LoadedView ==
    IF hasOptimizedView THEN <<[text |-> optimizedCode, class |-> "none"]>> ELSE <<>>

C18_ViewIffOptimized ==
    (variant \in ScriptPageVariants /\ panel # "none") =>
        /\ hasOptimizedView <=> optimizedCode # originalCode
        /\ optimizedCode = originalCode =>
              (clicks = 0 /\ inbox = <<>> /\ ~accepted /\ ~rejected /\ edits = 0)

\* the page opened for a non-empty code equal to the original, its script run
C18_Witness ==
    /\ variant \in ScriptPageVariants
    /\ panel = "open"
    /\ optimizedCode = originalCode
    /\ originalCode # <<>>
    /\ wpc = "failed"

\* --------------------------------------------- properties of the facilities
\* the languages a variant's formatCode has a formatter for
HasFormatter(v, language) ==
    IF v = "v2" THEN language \in {"javascript", "python"}
    ELSE language = "javascript"

\* C19 as stated: formatCode returns the code unchanged when no formatter is
\* available for the language or the formatter fails, and in every other
\* case the formatter's formatted version of the code.
C19_FormatterOutputOrInput ==
    call.fn = "formatCode" =>
        call.text = IF ~HasFormatter(call.v, call.language) THEN call.code
                    ELSE IF call.answer.kind = "throws" THEN call.code
                    ELSE call.answer.text

\* C19, amended: formatCode returns the code unchanged when no formatter is
\* available for the language or the formatter fails; in every other case
\* it returns the formatter's output, with the white space at both ends
\* removed in the variant that runs the formatter's command.
C19_FormatCode ==
    call.fn = "formatCode" =>
        call.text = IF ~HasFormatter(call.v, call.language) THEN call.code
                    ELSE IF call.answer.kind = "throws" THEN call.code
                    ELSE IF call.v = "v2" THEN trim(call.answer.text)
                    ELSE call.answer.text

\* formatCode returned the formatter's output, another text than the code
C19_Witness ==
    /\ call.fn = "formatCode"
    /\ HasFormatter(call.v, call.language)
    /\ call.answer.kind = "text"
    /\ call.text # call.code

\* C20: validateSyntax always returns a result, and when the service call
\* throws, its answer is no valid JSON, or its answer has no issues, the
\* result is the result of traditionalSyntaxCheck on the same code and
\* language.
C20_ValidateSyntaxFallback ==
    call.fn = "validateSyntax" =>
        /\ call.valid \in BOOLEAN
        /\ call.answer.kind \in {"throws", "badjson", "noissues"} =>
              call.valid = traditionalSyntaxCheck(call.v, call.language, call.localOk)

\* validateSyntax fell back on the local check for an answer with no issues,
\* and the local check failed
C20_Witness ==
    /\ call.fn = "validateSyntax"
    /\ call.answer.kind = "noissues"
    /\ ~call.valid

\* ------------------------------------------- properties of the input checks
\* there is no active editor, or the variant works on the selection and the
\* selected text is empty (the selection is that of the document as the
\* command found it: no edit was made)
InputsRejected ==
    ~hasEditor \/ (variant \in SelectionVariants /\ edits = 0 /\ selectedText = <<>>)

\* C30: the command checks its inputs before any other effect: with no
\* active editor, and in the selection-based variants with an empty
\* selection, it shows an error and ends without a call of the language
\* service, without a review and without an edit.
C30_InputsChecked ==
    (pc # "idle" /\ InputsRejected) =>
        /\ errorShown
        /\ pc = "done"
        /\ ~gocFailed /\ ~collabFailed /\ code = <<>>
        /\ panel = "none" /\ wpc = "none" /\ inbox = <<>>
        /\ pending = <<>> /\ edits = 0 /\ lastEdit = NoEdit

\* the command was run on an empty selection of a document with text in it
C30_Witness ==
    /\ pc = "done"
    /\ errorShown
    /\ hasEditor
    /\ variant \in SelectionVariants
    /\ edits = 0
    /\ selectedText = <<>>
    /\ document # <<>>

\* ------------------------------------------ properties of detectLanguage
\* C24: the service-based detectLanguage returns, for every answer of the
\* service (any text, or a failed call), a member of SUPPORTED_LANGUAGES or
\* 'unknown'.
C24_SupportedOrUnknown ==
    call.fn = "detectLanguage" =>
        call.text \in SUPPORTED_LANGUAGES(call.v) \cup {L_unknown}

\* the service answered a text that is no language, and 'unknown' came back
C24_Witness ==
    /\ call.fn = "detectLanguage"
    /\ call.answer.kind = "text"
    /\ call.answer.text # <<>>
    /\ sanitize(call.v, call.answer.text) \notin SUPPORTED_LANGUAGES(call.v)
    /\ call.text = L_unknown

\* C25: when the service answers exactly the lowercase name of a supported
\* language, detectLanguage returns that name; the C# variations ('c#',
\* 'c sharp', 'csharp') are returned as 'csharp' and the C++ variations
\* ('c++', 'cpp') as 'cpp'.
C25_NamesDetected ==
    (call.fn = "detectLanguage" /\ call.answer.kind = "text") =>
        /\ call.answer.text \in SUPPORTED_LANGUAGES_11 => call.text = call.answer.text
        /\ call.answer.text \in {<<"c", "#">>, <<"c", " ", "s", "h", "a", "r", "p">>, L_csharp}
              => call.text = L_csharp
        /\ call.answer.text \in {L_cplusplus, L_cpp} => call.text = L_cpp

\* the place of a language in the order of languagePatterns
PatternIndex(lang) == CHOOSE i \in 1..Len(languagePatterns) : languagePatterns[i] = lang

\* C26: the pattern-based detectLanguage returns the first language, in the
\* order python, java, cpp, javascript, csharp, ruby, php, swift, go, rust,
\* whose pattern matches the code, and 'unknown' exactly when no pattern
\* matches.
C26_FirstMatchInOrder ==
    call.fn = "detectLanguagePattern" =>
        /\ languagePatterns = <<L_python, L_java, L_cpp, L_javascript, L_csharp,
                                L_ruby, L_php, L_swift, L_go, L_rust>>
        /\ call.text = L_unknown <=> call.matches = {}
        /\ call.text # L_unknown =>
              /\ call.text \in call.matches
              /\ \A lang \in call.matches : PatternIndex(call.text) <= PatternIndex(lang)

\* a code that matches several patterns was given the earliest of them
C26_Witness ==
    /\ call.fn = "detectLanguagePattern"
    /\ Cardinality(call.matches) >= 3
    /\ L_python \notin call.matches
    /\ call.text = L_javascript

\* --------------------------------------------- properties of the issue list
\* C27: when the language service returns a non-empty issue list,
\* validateSyntax returns exactly those issues, and isValid is true if and
\* only if none of them has severity 'error'.
C27_IssuesReturned ==
    (call.fn = "validateSyntaxIssues" /\ call.answer.kind = "json" /\ call.reply # <<>>) =>
        /\ call.issues = call.reply
        /\ call.valid <=> ~(\E i \in 1..Len(call.reply) : call.reply[i].severity = "error")

\* the service listed a warning and an error: its list came back, not valid
C27_Witness ==
    /\ call.fn = "validateSyntaxIssues"
    /\ call.answer.kind = "json"
    /\ Len(call.reply) = 2
    /\ call.reply[1].severity = "warning"
    /\ call.reply[2].severity = "error"
    /\ call.issues = call.reply
    /\ ~call.valid

\* --------------------------------------- properties of getOptimizedCode
\* the requests for the optimized code and for the explanation
IsOptimizeRequest(request) == request \in {"optimize", "explain"}

\* C28: in the getOptimizedCode with the optimization check, when the
\* service's answer to the check, trimmed and in lower case, is anything
\* other than 'yes', the function returns the original code unchanged with
\* the fixed 'No optimizations were found' explanation and sends no
\* optimization or explanation request.
C28_NotYesReturnsOriginal ==
    (/\ call.fn = "getOptimizedCode"
     /\ call.v = "v2"
     /\ "check" \in {call.requests[i] : i \in 1..Len(call.requests)}
     /\ call.answer.kind = "text"
     /\ toLowerCase(trimWhite(call.answer.text)) # L_yes) =>
        /\ call.valid
        /\ call.text = call.code
        /\ call.explanation = "No optimizations were found"
        /\ SelectSeq(call.requests, IsOptimizeRequest) = <<>>

\* the check was answered 'yes.', and the original code came back
C28_Witness ==
    /\ call.fn = "getOptimizedCode"
    /\ call.v = "v2"
    /\ call.answer = Answer("text", <<"y", "e", "s", ".">>)
    /\ call.requests = <<"detect", "syntax", "check">>
    /\ call.valid
    /\ call.text = call.code
    /\ call.code # <<>>

\* C29: in the getOptimizedCode whose refineOptimizedCode rejects
\* unsupported languages, whenever the detected language is 'unknown' the
\* function never returns code that differs from the original: it throws,
\* or it returns the original code unchanged.
C29_UnknownLanguageKeepsCode ==
    (call.fn = "getOptimizedCode" /\ call.v = "v2" /\ call.language = "unknown") =>
        (~call.valid \/ call.text = call.code)

\* the language was 'unknown', the check answered yes and the optimization
\* request was sent: the function threw
C29_Witness ==
    /\ call.fn = "getOptimizedCode"
    /\ call.v = "v2"
    /\ call.language = "unknown"
    /\ call.requests = <<"detect", "syntax", "check", "optimize">>
    /\ ~call.valid

\* the attempts, among the first `retries`, that succeed
Successes == {n \in 1..call.retries : call.outcomes[n] = "ok"}

\* C23: the retrying getOptimizedCode(userCode, retries) with retries >= 1
\* makes at most `retries` attempts: it returns the result of the first
\* attempt that succeeds and makes no attempt after it; if all `retries`
\* attempts fail it throws 'Failed after <retries> attempts' with the last
\* attempt's message; the final 'Unexpected error' throw is never reached.
C23_AtMostRetriesAttempts ==
    (call.fn = "getOptimizedCodeRetry" /\ call.retries >= 1) =>
        /\ call.loop.attempts <= call.retries
        /\ call.loop.kind # "Unexpected error"
        /\ Successes # {} =>
              /\ call.loop.kind = "returned"
              /\ call.loop.attempts \in Successes
              /\ \A n \in Successes : call.loop.attempts <= n
        /\ Successes = {} =>
              /\ call.loop.kind = "Failed after"
              /\ call.loop.attempts = call.retries
              /\ call.loop.error = call.outcomes[call.retries]

\* three attempts asked for, two failed with different errors, the third
\* failed too: 'Failed after' with the third's message
C23_Witness ==
    /\ call.fn = "getOptimizedCodeRetry"
    /\ call.retries = 3
    /\ call.outcomes[1] # call.outcomes[3]
    /\ call.loop = FailedAfter(3, call.outcomes[3])

\* ------------------------------------- properties of the accepted edit
\* the first edit of a review: the document then is the text written
FirstAcceptStep ==
    (variant \in PanelVariants /\ edits = 0 /\ edits' = 1) =>
        document' = lastEdit'.text

\* C22: after an accept decision has been applied, the document's entire
\* text equals the accepted replacement text, also when the user edited the
\* document between starting the command and accepting.
C22_AcceptReplacesWholeText == [][FirstAcceptStep]_vars

\* ------------------------------------------ properties of concurrent runs
\* a step of two review cycles: a cycle in review keeps its pair; a cycle
\* whose panel closes leaves every other cycle as it is, and the text it
\* writes, if it writes, is its own modified text
CyclesStep ==
    \A i \in CycleIds :
        /\ cycles[i].panel = "open" =>
              /\ cycles'[i].userCode = cycles[i].userCode
              /\ cycles'[i].code = cycles[i].code
        /\ (cycles[i].panel = "open" /\ cycles'[i].panel = "disposed") =>
              /\ \A j \in CycleIds \ {i} : cycles'[j] = cycles[j]
              /\ edits' # edits =>
                    (edits' = edits + 1 /\ lastEdit'.text = cycles[i].code)
              /\ edits' = edits => cycles'[i].pc = "rejected"

\* C21: when the command is run twice so that two review cycles are open
\* at the same time, each cycle keeps its own (original, modified) pair,
\* and a decision in one cycle applies only that cycle's modified text,
\* closes only that cycle's panel and leaves the other cycle, and what it
\* later writes, as it is.
C21_CyclesIndependent == [][CyclesStep]_vars

\* the second cycle's accept was applied while the first cycle's panel,
\* opened before that edit with another modified text, is still open
C21_Witness ==
    /\ cycles[2].pc = "accepted"
    /\ cycles[1].panel = "open"
    /\ cycles[1].editsAtOpen = 0
    /\ edits = 1
    /\ cycles[1].code # cycles[2].code
    /\ lastEdit.text = cycles[2].code

====
